---- MODULE Spec2Model ----
(***************************************************************************)
(* A model of the lru-cache crate: LruCache (src/src/lib.rs) on top of a   *)
(* LinkedHashMap, and the Entry API (src/src/entry.rs).                    *)
(*                                                                         *)
(* The LinkedHashMap is a hash index (key -> value) together with a linked *)
(* list of the same keys, front = least recently used, back = most         *)
(* recently used.  The two are modelled separately, so that their          *)
(* agreement is a property to check and not a consequence of the encoding. *)
(***************************************************************************)
EXTENDS Integers, Sequences, FiniteSets, TLC

\* Bounds of the model.
MaxKey == 3
MaxVal == 2
MaxCap == 2
MaxExtend == 2

Keys == 1..MaxKey
Values == 1..MaxVal
Caps == 0..MaxCap
\* Longest scenario followed by the history variable: fill, get, insert.
MaxHist == MaxCap + 2

VARIABLES
    map,        \* LruCache.map: [index, order]
    max_size,   \* LruCache.max_size
    last,       \* the call that produced this state: arguments, result, pre-state
    uses,       \* keys ordered by their most recent use, oldest first
    hist        \* the calls made so far, when a scenario is followed

vars == <<map, max_size, last, uses, hist>>

----------------------------------------------------------------------------
\* Option<V>
None == <<>>
Some(x) == <<x>>

\* The sequence s with every occurrence of k taken out.
Without(s, k) == SelectSeq(s, LAMBDA x: x # k)

\* The function f restricted to its domain minus k.
Drop(f, k) == [x \in (DOMAIN f) \ {k} |-> f[x]]

EmptyIndex == [x \in {} |-> 0]
EmptyMap == [index |-> EmptyIndex, order |-> <<>>]

----------------------------------------------------------------------------
\* LinkedHashMap, the ordered associative store the cache delegates to.

lhm_contains_key(m, k) == k \in DOMAIN m.index

lhm_len(m) == Cardinality(DOMAIN m.index)

lhm_is_empty(m) == lhm_len(m) = 0

\* insert: replace the value and move the node to the back, or attach a new
\* node at the back; returns the old value.
\* (as lhm_insert, but an existing node is not detached first)
lhm_insert_no_detach(m, k, v) ==
    [map |-> [index |-> (k :> v) @@ m.index,
              order |-> Append(m.order, k)],
     ret |-> IF lhm_contains_key(m, k) THEN Some(m.index[k]) ELSE None]

lhm_insert(m, k, v) ==
    [map |-> [index |-> (k :> v) @@ m.index,
              order |-> Append(Without(m.order, k), k)],
     ret |-> IF lhm_contains_key(m, k) THEN Some(m.index[k]) ELSE None]

\* get_refresh: on a hit, detach the node and attach it at the back.
lhm_get_refresh(m, k) ==
    IF lhm_contains_key(m, k)
    THEN [map |-> [index |-> m.index,
                   order |-> Append(Without(m.order, k), k)],
          ret |-> Some(m.index[k])]
    ELSE [map |-> m, ret |-> None]

\* remove: take the key out of the index and its node out of the list.
lhm_remove(m, k) ==
    IF lhm_contains_key(m, k)
    THEN [map |-> [index |-> Drop(m.index, k),
                   order |-> Without(m.order, k)],
          ret |-> Some(m.index[k])]
    ELSE [map |-> m, ret |-> None]

\* pop_front: if the map is not empty, detach the front node and remove its
\* key from the index.
lhm_pop_front(m) ==
    IF lhm_len(m) > 0 /\ Len(m.order) > 0
    THEN [index |-> Drop(m.index, Head(m.order)),
          order |-> Tail(m.order)]
    ELSE m

lhm_clear(m) == EmptyMap

\* linked_hash_map::VacantEntry::insert: attach a new node at the back.
lhm_vacant_insert(m, k, v) ==
    [index |-> (k :> v) @@ m.index,
     order |-> Append(m.order, k)]

\* linked_hash_map::OccupiedEntry::insert: replace the value, detach the
\* node and attach it at the back (as LinkedHashMap::insert does for an
\* existing key); returns the old value.
lhm_occupied_insert(m, k, v) ==
    [map |-> [index |-> [m.index EXCEPT ![k] = v],
              order |-> Append(Without(m.order, k), k)],
     ret |-> m.index[k]]

----------------------------------------------------------------------------
\* LruCache.  A cache value is [map, max_size, evicted]; evicted is the
\* record of the keys remove_lru has dropped during the current call.

new(capacity) ==
    [map |-> EmptyMap, max_size |-> capacity, evicted |-> <<>>]

len(c) == lhm_len(c.map)

is_empty(c) == lhm_is_empty(c.map)

capacity(c) == c.max_size

\* The keys of m1 that m2 no longer has, as a sequence (at most one key).
Gone(m1, m2) ==
    LET d == (DOMAIN m1.index) \ (DOMAIN m2.index)
    IN  IF d = {} THEN <<>> ELSE <<CHOOSE x \in d : TRUE>>

\* (as remove_lru, dropping the back of the list instead of the front)
remove_lru_back(c) ==
    LET o == c.map.order
        m2 == IF lhm_len(c.map) > 0 /\ Len(o) > 0
              THEN [index |-> Drop(c.map.index, o[Len(o)]),
                    order |-> SubSeq(o, 1, Len(o) - 1)]
              ELSE c.map
    IN  [c EXCEPT !.map = m2, !.evicted = @ \o Gone(c.map, m2)]

remove_lru(c) ==
    LET m2 == lhm_pop_front(c.map)
    IN  [c EXCEPT !.map = m2, !.evicted = @ \o Gone(c.map, m2)]

\* (as insert, without the eviction check)
insert_no_evict(c, k, v) ==
    LET old_val == lhm_insert(c.map, k, v)
    IN  [cache |-> [c EXCEPT !.map = old_val.map], ret |-> old_val.ret]

\* (as insert, evicting as soon as len() reaches capacity())
insert_evict_at_capacity(c, k, v) ==
    LET old_val == lhm_insert(c.map, k, v)
        c1 == [c EXCEPT !.map = old_val.map]
    IN  [cache |-> IF len(c1) >= capacity(c1) THEN remove_lru(c1) ELSE c1,
         ret |-> old_val.ret]

insert(c, k, v) ==
    LET old_val == lhm_insert(c.map, k, v)
        c1 == [c EXCEPT !.map = old_val.map]
    IN  [cache |-> IF len(c1) > capacity(c1) THEN remove_lru(c1) ELSE c1,
         ret |-> old_val.ret]

\* The insert policy of the specification: store the pair, then pop the
\* front while len() > capacity() (and the store still has a front to pop).
RECURSIVE evict_while_over(_)
evict_while_over(c) ==
    IF len(c) > capacity(c) /\ len(remove_lru(c)) < len(c)
    THEN evict_while_over(remove_lru(c))
    ELSE c

insert_loop(c, k, v) ==
    LET old_val == lhm_insert(c.map, k, v)
    IN  [cache |-> evict_while_over([c EXCEPT !.map = old_val.map]),
         ret |-> old_val.ret]

\* (as get, taking the entry out instead of refreshing it)
get_as_remove(c, k) ==
    LET r == lhm_remove(c.map, k)
    IN  [cache |-> [c EXCEPT !.map = r.map], ret |-> r.ret]

\* (as get, looking the key up without refreshing it)
get_no_refresh(c, k) ==
    [cache |-> c,
     ret |-> IF lhm_contains_key(c.map, k) THEN Some(c.map.index[k]) ELSE None]

get(c, k) ==
    LET r == lhm_get_refresh(c.map, k)
    IN  [cache |-> [c EXCEPT !.map = r.map], ret |-> r.ret]

\* (as remove, returning the value but leaving the entry in, refreshed)
remove_as_get(c, k) ==
    LET r == lhm_get_refresh(c.map, k)
    IN  [cache |-> [c EXCEPT !.map = r.map], ret |-> r.ret]

remove(c, k) ==
    LET r == lhm_remove(c.map, k)
    IN  [cache |-> [c EXCEPT !.map = r.map], ret |-> r.ret]

\* n calls of remove_lru.
RECURSIVE remove_lru_times(_, _)
remove_lru_times(c, n) ==
    IF n <= 0 THEN c ELSE remove_lru_times(remove_lru(c), n - 1)

\* (as set_capacity, with one eviction check in place of the loop)
set_capacity_once(c, new_capacity) ==
    LET c1 == IF len(c) > new_capacity THEN remove_lru(c) ELSE c
    IN  [c1 EXCEPT !.max_size = new_capacity]

\* (as set_capacity, with the inclusive range capacity..=len)
set_capacity_inclusive(c, new_capacity) ==
    LET c1 == remove_lru_times(c, len(c) - new_capacity + 1)
    IN  [c1 EXCEPT !.max_size = new_capacity]

\* (as set_capacity, storing the new capacity without evicting)
set_capacity_no_evict(c, new_capacity) ==
    [c EXCEPT !.max_size = new_capacity]

\* for _ in capacity..self.len(): the range is fixed before the first
\* iteration, and is empty when capacity >= len.
set_capacity(c, new_capacity) ==
    LET c1 == remove_lru_times(c, len(c) - new_capacity)
    IN  [c1 EXCEPT !.max_size = new_capacity]

\* (as clear, dropping the least recently used entry only)
clear_one(c) == remove_lru(c)

clear(c) == [c EXCEPT !.map = lhm_clear(c.map)]

\* (as extend, storing every pair first and checking the capacity once)
RECURSIVE lhm_insert_all(_, _)
lhm_insert_all(m, iter) ==
    IF iter = <<>> THEN m
    ELSE lhm_insert_all(lhm_insert(m, Head(iter)[1], Head(iter)[2]).map, Tail(iter))

extend_bulk_check(c, iter) ==
    LET c1 == [c EXCEPT !.map = lhm_insert_all(c.map, iter)]
    IN  IF len(c1) > capacity(c1) THEN remove_lru(c1) ELSE c1

\* Extend::extend: one insert per pair, in iteration order.
RECURSIVE extend(_, _)
extend(c, iter) ==
    IF iter = <<>> THEN c
    ELSE extend(insert(c, Head(iter)[1], Head(iter)[2]).cache, Tail(iter))

\* (as debug_fmt, iterating from front to back: the rev() left out)
debug_fmt_front_to_back(c) ==
    [i \in 1..Len(c.map.order) |->
        LET k == c.map.order[i]
        IN  <<k, c.map.index[k]>>]

\* fmt::Debug: self.map.iter().rev(), the pairs of the list from back to
\* front.
debug_fmt(c) ==
    [i \in 1..Len(c.map.order) |->
        LET k == c.map.order[Len(c.map.order) + 1 - i]
        IN  <<k, c.map.index[k]>>]

\* The loop of fmt from the i-th pair on: ", " before every pair but the
\* first, then "{:?}: {:?}".
RECURSIVE fmt_pairs(_, _)
fmt_pairs(items, i) ==
    IF i > Len(items) THEN ""
    ELSE (IF i # 1 THEN ", " ELSE "")
         \o ToString(items[i][1]) \o ": " \o ToString(items[i][2])
         \o fmt_pairs(items, i + 1)

\* fmt::Debug::fmt: "{", the pairs, "}".
fmt(c) == "{" \o fmt_pairs(debug_fmt(c), 1) \o "}"

----------------------------------------------------------------------------
\* Entry API.  An Entry borrows the cache mutably, so nothing can happen
\* between entry(k) and the call on the Entry: each pair is one step.

\* LruCache::entry: look the key up, without touching the order.
entry(c, k) == IF lhm_contains_key(c.map, k) THEN "Occupied" ELSE "Vacant"

\* The reference VacantEntry::insert returns when the node it points to has
\* been dropped by the eviction that followed.
Dangling == <<0>>

\* (as OccupiedEntry::get_mut, refreshing the key as a look-up does)
OccupiedEntry_get_mut_refresh(c, k) ==
    LET r == lhm_get_refresh(c.map, k)
    IN  [cache |-> [c EXCEPT !.map = r.map], ret |-> r.ret]

OccupiedEntry_get_mut(c, k) ==
    [cache |-> c, ret |-> Some(c.map.index[k])]

OccupiedEntry_into_mut(c, k) ==
    [cache |-> c, ret |-> Some(c.map.index[k])]

\* (as OccupiedEntry::insert, returning the value it has just stored)
OccupiedEntry_insert_returns_new(c, k, value) ==
    LET r == lhm_occupied_insert(c.map, k, value)
    IN  [cache |-> [c EXCEPT !.map = r.map], ret |-> Some(r.map.index[k])]

OccupiedEntry_insert(c, k, value) ==
    LET r == lhm_occupied_insert(c.map, k, value)
    IN  [cache |-> [c EXCEPT !.map = r.map], ret |-> Some(r.ret)]

OccupiedEntry_remove(c, k) ==
    LET r == lhm_remove(c.map, k)
    IN  [cache |-> [c EXCEPT !.map = r.map], ret |-> r.ret]

\* (as VacantEntry::insert, without the eviction check)
VacantEntry_insert_no_evict(c, k, value) ==
    [cache |-> [c EXCEPT !.map = lhm_vacant_insert(c.map, k, value)],
     ret |-> Some(value)]

VacantEntry_insert(c, k, value) ==
    LET c1 == [c EXCEPT !.map = lhm_vacant_insert(c.map, k, value)]
        c2 == IF len(c1) > capacity(c1) THEN remove_lru(c1) ELSE c1
    IN  [cache |-> c2,
         ret |-> IF lhm_contains_key(c2.map, k) THEN Some(value) ELSE Dangling]

\* (as Entry::or_insert, overwriting the value of an Occupied entry)
Entry_or_insert_overwrite(c, k, default) ==
    IF entry(c, k) = "Occupied"
    THEN OccupiedEntry_insert(c, k, default)
    ELSE VacantEntry_insert(c, k, default)

Entry_or_insert(c, k, default) ==
    IF entry(c, k) = "Occupied"
    THEN OccupiedEntry_into_mut(c, k)
    ELSE VacantEntry_insert(c, k, default)

\* The closure is called only on the Vacant branch; default is what it returns.
Entry_or_insert_with(c, k, default) ==
    IF entry(c, k) = "Occupied"
    THEN OccupiedEntry_into_mut(c, k)
    ELSE VacantEntry_insert(c, k, default)

----------------------------------------------------------------------------
\* History variables.

\* uses: a use of k moves k to the end.
Touch(u, k) == Append(Without(u, k), k)

RECURSIVE TouchAll(_, _)
TouchAll(u, iter) ==
    IF iter = <<>> THEN u ELSE TouchAll(Touch(u, Head(iter)[1]), Tail(iter))

\* hist: the calls of a scenario, in order, as [op, k]; it stays empty
\* when the cache is used freely.
HistAdd(h, o, k) == Append(h, [op |-> o, k |-> k])

Cache == [map |-> map, max_size |-> max_size, evicted |-> <<>>]

Call(o, k, v, n, iter, r) ==
    [op |-> o, k |-> k, v |-> v, n |-> n, iter |-> iter,
     ret |-> r.ret, evicted |-> r.cache.evicted,
     pre_map |-> map, pre_max_size |-> max_size]

Store(c) ==
    /\ map' = c.map
    /\ max_size' = c.max_size

----------------------------------------------------------------------------
\* The state machine: one step per public call.

NoCall ==
    [op |-> "new", k |-> 0, v |-> 0, n |-> 0, iter |-> <<>>,
     ret |-> None, evicted |-> <<>>,
     pre_map |-> EmptyMap, pre_max_size |-> 0]

Init ==
    \E cap \in Caps :
        /\ map = new(cap).map
        /\ max_size = new(cap).max_size
        /\ last = [NoCall EXCEPT !.n = cap, !.pre_max_size = cap]
        /\ uses = <<>>
        /\ hist = <<>>

InsertCall(k, v) ==
    LET r == insert(Cache, k, v)
    IN  /\ Store(r.cache)
        /\ last' = Call("insert", k, v, 0, <<>>, r)
        /\ uses' = Touch(uses, k)

Insert(k, v) ==
    /\ InsertCall(k, v)
    /\ UNCHANGED hist

GetCall(k) ==
    LET r == get(Cache, k)
    IN  /\ Store(r.cache)
        /\ last' = Call("get", k, 0, 0, <<>>, r)
        /\ uses' = IF r.ret # None THEN Touch(uses, k) ELSE uses

Get(k) ==
    /\ GetCall(k)
    /\ UNCHANGED hist

Remove(k) ==
    LET r == remove(Cache, k)
    IN  /\ Store(r.cache)
        /\ last' = Call("remove", k, 0, 0, <<>>, r)
        /\ uses' = uses
        /\ UNCHANGED hist

SetCapacity(n) ==
    LET r == [cache |-> set_capacity(Cache, n), ret |-> None]
    IN  /\ Store(r.cache)
        /\ last' = Call("set_capacity", 0, 0, n, <<>>, r)
        /\ uses' = uses
        /\ UNCHANGED hist

Clear ==
    LET r == [cache |-> clear(Cache), ret |-> None]
    IN  /\ Store(r.cache)
        /\ last' = Call("clear", 0, 0, 0, <<>>, r)
        /\ uses' = uses
        /\ UNCHANGED hist

Debug ==
    LET r == [cache |-> Cache, ret |-> Some(fmt(Cache))]
    IN  /\ Store(r.cache)
        /\ last' = Call("fmt", 0, 0, 0, <<>>, r)
        /\ uses' = uses
        /\ UNCHANGED hist

Pairs == Keys \X Values
Iters == UNION {[1..n -> Pairs] : n \in 0..MaxExtend}

Extend(iter) ==
    LET r == [cache |-> extend(Cache, iter), ret |-> None]
    IN  /\ Store(r.cache)
        /\ last' = Call("extend", 0, 0, 0, iter, r)
        /\ uses' = TouchAll(uses, iter)
        /\ UNCHANGED hist

EntryOrInsert(k, v) ==
    LET r == Entry_or_insert(Cache, k, v)
    IN  /\ Store(r.cache)
        /\ last' = Call("or_insert", k, v, 0, <<>>, r)
        /\ uses' = IF entry(Cache, k) = "Vacant" THEN Touch(uses, k) ELSE uses
        /\ UNCHANGED hist

EntryOrInsertWith(k, v) ==
    LET r == Entry_or_insert_with(Cache, k, v)
    IN  /\ Store(r.cache)
        /\ last' = Call("or_insert_with", k, v, 0, <<>>, r)
        /\ uses' = IF entry(Cache, k) = "Vacant" THEN Touch(uses, k) ELSE uses
        /\ UNCHANGED hist

EntryVacantInsert(k, v) ==
    /\ entry(Cache, k) = "Vacant"
    /\ LET r == VacantEntry_insert(Cache, k, v)
       IN  /\ Store(r.cache)
           /\ last' = Call("vacant_insert", k, v, 0, <<>>, r)
           /\ uses' = Touch(uses, k)
           /\ UNCHANGED hist

EntryOccupiedInsert(k, v) ==
    /\ entry(Cache, k) = "Occupied"
    /\ LET r == OccupiedEntry_insert(Cache, k, v)
       IN  /\ Store(r.cache)
           /\ last' = Call("occupied_insert", k, v, 0, <<>>, r)
           /\ uses' = Touch(uses, k)
           /\ UNCHANGED hist

EntryOccupiedRemove(k) ==
    /\ entry(Cache, k) = "Occupied"
    /\ LET r == OccupiedEntry_remove(Cache, k)
       IN  /\ Store(r.cache)
           /\ last' = Call("occupied_remove", k, 0, 0, <<>>, r)
           /\ uses' = uses
           /\ UNCHANGED hist

EntryOccupiedGetMut(k) ==
    /\ entry(Cache, k) = "Occupied"
    /\ LET r == OccupiedEntry_get_mut(Cache, k)
       IN  /\ Store(r.cache)
           /\ last' = Call("get_mut", k, 0, 0, <<>>, r)
           /\ uses' = uses
           /\ UNCHANGED hist

EntryOccupiedIntoMut(k) ==
    /\ entry(Cache, k) = "Occupied"
    /\ LET r == OccupiedEntry_into_mut(Cache, k)
       IN  /\ Store(r.cache)
           /\ last' = Call("into_mut", k, 0, 0, <<>>, r)
           /\ uses' = uses
           /\ UNCHANGED hist

Next ==
    \/ \E k \in Keys, v \in Values : Insert(k, v)
    \/ \E k \in Keys : Get(k)
    \/ \E k \in Keys : Remove(k)
    \/ \E n \in Caps : SetCapacity(n)
    \/ Clear
    \/ Debug
    \/ \E iter \in Iters : Extend(iter)
    \/ \E k \in Keys, v \in Values : EntryOrInsert(k, v)
    \/ \E k \in Keys, v \in Values : EntryOrInsertWith(k, v)
    \/ \E k \in Keys, v \in Values : EntryVacantInsert(k, v)
    \/ \E k \in Keys, v \in Values : EntryOccupiedInsert(k, v)
    \/ \E k \in Keys : EntryOccupiedRemove(k)
    \/ \E k \in Keys : EntryOccupiedGetMut(k)
    \/ \E k \in Keys : EntryOccupiedIntoMut(k)

Spec == Init /\ [][Next]_vars

\* The cache used through insert and get only, from new, for at most MaxHist
\* calls, with the calls recorded in hist.
ScenarioInsert(k, v) ==
    /\ Len(hist) < MaxHist
    /\ InsertCall(k, v)
    /\ hist' = HistAdd(hist, "insert", k)

ScenarioGet(k) ==
    /\ Len(hist) < MaxHist
    /\ GetCall(k)
    /\ hist' = HistAdd(hist, "get", k)

ScenarioNext ==
    \/ \E k \in Keys, v \in Values : ScenarioInsert(k, v)
    \/ \E k \in Keys : ScenarioGet(k)

SpecScenario == Init /\ [][ScenarioNext]_vars

----------------------------------------------------------------------------
\* Abbreviations for the properties.

PreCache == [map |-> last.pre_map, max_size |-> last.pre_max_size, evicted |-> <<>>]
KeysOf(m) == DOMAIN m.index
IsSet(s) == \A i, j \in 1..Len(s) : s[i] = s[j] => i = j
Range(s) == {s[i] : i \in 1..Len(s)}

\* The least recently used key among those of S, by the history of uses u.
LruOf(u, S) == Head(SelectSeq(u, LAMBDA x : x \in S))

TypeOK ==
    /\ max_size \in Caps
    /\ KeysOf(map) \subseteq Keys
    /\ \A k \in KeysOf(map) : map.index[k] \in Values
    /\ map.order \in Seq(Keys)

----------------------------------------------------------------------------
\* C1: after every public call returns, len() <= capacity().
C1_LenWithinCapacity == len(Cache) <= capacity(Cache)

\* A full cache, just after an insert of a new key that had to evict.
C1_Witness ==
    /\ last.op = "insert"
    /\ last.evicted # <<>>
    /\ len(Cache) = capacity(Cache)
    /\ capacity(Cache) >= 1

\* C2: each key has at most one entry, and the recency order and the key
\* index hold exactly the same keys: every key of the index is at exactly one
\* position of the order, and every position of the order is a key of the index.
C2_OrderMatchesIndex ==
    /\ IsSet(map.order)
    /\ Range(map.order) = KeysOf(map)
    /\ Len(map.order) = lhm_len(map)

\* An existing key has been inserted again while another key was present.
C2_Witness ==
    /\ last.op = "insert"
    /\ last.k \in KeysOf(last.pre_map)
    /\ Len(map.order) >= 2

\* The calls that insert a key.
InsertOps == {"insert", "vacant_insert", "or_insert", "or_insert_with"}

\* The keys present just before the i-th eviction of the last call.
PresentAt(i) ==
    (KeysOf(last.pre_map) \cup (IF last.op \in InsertOps THEN {last.k} ELSE {}))
        \ {last.evicted[j] : j \in 1..(i - 1)}

\* C3: whenever an insert or a shrinking set_capacity evicts an entry, that
\* entry is the least recently used one: among the keys present at that
\* moment, the one whose most recent use (an insert of the key, or a
\* successful get of it) is the oldest.
C3_EvictsLeastRecentlyUsed ==
    last.op \in InsertOps \cup {"set_capacity"} =>
        \A i \in 1..Len(last.evicted) :
            /\ SelectSeq(uses, LAMBDA x : x \in PresentAt(i)) # <<>>
            /\ last.evicted[i] = LruOf(uses, PresentAt(i))

\* An insert of a third key into a full cache of two entries has evicted
\* the one of them that was used longest ago.
C3_Witness ==
    /\ last.op = "insert"
    /\ Len(last.evicted) = 1
    /\ Len(last.pre_map.order) = 2
    /\ Len(uses) = 3
    /\ last.evicted[1] = uses[1]
    /\ last.pre_max_size = 2

----------------------------------------------------------------------------
\* Scenarios, read off hist.

AllInserts(h) == \A i \in 1..Len(h) : h[i].op = "insert"
HistKeys(h) == [i \in 1..Len(h) |-> h[i].k]

\* C4: after C+1 distinct keys k1..k(C+1) have been inserted in that order
\* into an empty cache of capacity C, with no get in between, k1 is absent
\* and k2..k(C+1) are all present.
C4_LruOrder ==
    (/\ AllInserts(hist)
     /\ IsSet(HistKeys(hist))
     /\ Len(hist) = max_size + 1)
    => /\ hist[1].k \notin KeysOf(map)
       /\ \A i \in 2..Len(hist) : hist[i].k \in KeysOf(map)

C4_Witness ==
    /\ AllInserts(hist)
    /\ IsSet(HistKeys(hist))
    /\ Len(hist) = max_size + 1
    /\ max_size = MaxCap
    /\ max_size >= 2

\* The refresh scenario for capacity C: insert 1..C, get(1), insert a new key.
RefreshScenario(C) ==
    /\ max_size = C
    /\ Len(hist) = C + 2
    /\ \A i \in 1..C : hist[i] = [op |-> "insert", k |-> i]
    /\ hist[C + 1] = [op |-> "get", k |-> 1]
    /\ hist[C + 2].op = "insert"
    /\ hist[C + 2].k \notin 1..C

\* C5 as stated, for every capacity C >= 1: the last insert of the refresh
\* scenario evicts key 2 and key 1 is still present.
C5_RefreshFromOne ==
    \A C \in 1..MaxCap :
        RefreshScenario(C) => last.evicted = <<2>> /\ 1 \in KeysOf(map)

\* C5, amended to capacities C >= 2: the last insert of the refresh scenario
\* evicts key 2 and key 1 is still present.
C5_Refresh ==
    \A C \in 2..MaxCap :
        RefreshScenario(C) => last.evicted = <<2>> /\ 1 \in KeysOf(map)

C5_Witness == \E C \in 2..MaxCap : RefreshScenario(C)

----------------------------------------------------------------------------
\* Calls on the free-running cache, read off last.

SameValues(S, m1, m2) == \A x \in S : m1.index[x] = m2.index[x]

\* C6: insert(k, v) of a key already present returns the previous value,
\* leaves len() unchanged, evicts nothing, stores v for k and moves k to the
\* most recently used position; the other entries keep values and order.
C6_UpdateNotInsert ==
    (last.op = "insert" /\ last.k \in KeysOf(last.pre_map)) =>
        /\ last.ret = Some(last.pre_map.index[last.k])
        /\ len(Cache) = len(PreCache)
        /\ last.evicted = <<>>
        /\ KeysOf(map) = KeysOf(last.pre_map)
        /\ map.index[last.k] = last.v
        /\ SameValues(KeysOf(map) \ {last.k}, map, last.pre_map)
        /\ map.order = Append(Without(last.pre_map.order, last.k), last.k)

\* The least recently used key of a full cache is inserted again, with a
\* new value.
C6_Witness ==
    /\ last.op = "insert"
    /\ len(PreCache) = capacity(PreCache)
    /\ len(PreCache) >= 2
    /\ last.k = Head(last.pre_map.order)
    /\ last.v # last.pre_map.index[last.k]

\* C7: set_capacity(n) with n < len() removes exactly len() - n entries, the
\* least recently used ones, oldest first, keeps the other n entries with
\* their values and relative order, and leaves capacity() = n.
C7_CapacityShrink ==
    (last.op = "set_capacity" /\ last.n < len(PreCache)) =>
        LET o == last.pre_map.order
            d == len(PreCache) - last.n
        IN  /\ last.evicted = SubSeq(o, 1, d)
            /\ map.order = SubSeq(o, d + 1, Len(o))
            /\ KeysOf(map) = Range(SubSeq(o, d + 1, Len(o)))
            /\ SameValues(KeysOf(map), map, last.pre_map)
            /\ len(Cache) = last.n
            /\ capacity(Cache) = last.n

\* set_capacity has dropped two entries at once.
C7_Witness ==
    /\ last.op = "set_capacity"
    /\ last.n < len(PreCache)
    /\ Len(last.evicted) >= 2

\* C8: set_capacity(n) with n >= len() evicts nothing: entries, values,
\* order and len() are unchanged, and capacity() becomes n.
C8_CapacityGrowth ==
    (last.op = "set_capacity" /\ last.n >= len(PreCache)) =>
        /\ last.evicted = <<>>
        /\ map = last.pre_map
        /\ len(Cache) = len(PreCache)
        /\ capacity(Cache) = last.n

\* The capacity is lowered to exactly the number of entries held.
C8_Witness ==
    /\ last.op = "set_capacity"
    /\ last.n = len(PreCache)
    /\ last.n >= 1
    /\ last.n < last.pre_max_size

\* C9: with capacity() >= 1, right after insert(k, v) returns, k has not
\* been evicted: k is present and get(k) returns v.
C9_InsertedKeyStays ==
    (last.op = "insert" /\ capacity(Cache) >= 1) =>
        /\ last.k \notin Range(last.evicted)
        /\ lhm_contains_key(map, last.k)
        /\ get(Cache, last.k).ret = Some(last.v)

\* A new key inserted into a full cache of capacity 1.
C9_Witness ==
    /\ last.op = "insert"
    /\ capacity(Cache) = 1
    /\ last.evicted # <<>>

\* C10: with capacity 0 the cache is always empty: len() is 0 after every
\* call, and insert(k, v) returns none and evicts the entry it has just
\* inserted, so that a following get(k) finds nothing.
C10_CapacityZero ==
    capacity(Cache) = 0 =>
        /\ len(Cache) = 0
        /\ is_empty(Cache)
        /\ map.order = <<>>
        /\ last.op = "insert" =>
            /\ last.ret = None
            /\ last.evicted = <<last.k>>
            /\ get(Cache, last.k).ret = None

C10_Witness ==
    /\ last.op = "insert"
    /\ capacity(Cache) = 0

----------------------------------------------------------------------------
\* C11: remove(k) of a present key returns its value and deletes exactly
\* that entry (len() decreases by 1); of an absent key it returns none and
\* changes nothing.  Either way nothing is evicted, the capacity is unchanged
\* and the other entries keep their values and relative order, so that a
\* later insert of a new key into the freed slot evicts nothing.
C11_Remove ==
    last.op = "remove" =>
        /\ last.evicted = <<>>
        /\ capacity(Cache) = last.pre_max_size
        /\ IF last.k \in KeysOf(last.pre_map)
           THEN /\ last.ret = Some(last.pre_map.index[last.k])
                /\ KeysOf(map) = KeysOf(last.pre_map) \ {last.k}
                /\ len(Cache) = len(PreCache) - 1
                /\ SameValues(KeysOf(map), map, last.pre_map)
                /\ map.order = Without(last.pre_map.order, last.k)
                /\ \A k2 \in Keys \ KeysOf(map), v \in Values :
                       /\ insert(Cache, k2, v).cache.evicted = <<>>
                       /\ len(insert(Cache, k2, v).cache) = len(PreCache)
           ELSE /\ last.ret = None
                /\ map = last.pre_map

\* A key in the middle of the order of a full cache has been removed.
C11_Witness ==
    /\ last.op = "remove"
    /\ len(PreCache) = capacity(PreCache)
    /\ len(PreCache) >= 2
    /\ last.k = last.pre_map.order[2]
    /\ last.ret # None

\* C12: get never evicts and never changes the set of entries, their
\* values, len() or capacity(); get(k) of an absent key returns none and
\* leaves the recency order unchanged as well.
C12_GetKeepsEntries ==
    last.op = "get" =>
        /\ last.evicted = <<>>
        /\ map.index = last.pre_map.index
        /\ len(Cache) = len(PreCache)
        /\ capacity(Cache) = last.pre_max_size
        /\ IF last.k \in KeysOf(last.pre_map)
           THEN last.ret = Some(last.pre_map.index[last.k])
           ELSE last.ret = None /\ map = last.pre_map

\* A get of the least recently used key of a full cache of two entries:
\* the order changes, the entries do not.
C12_Witness ==
    /\ last.op = "get"
    /\ len(PreCache) = capacity(PreCache)
    /\ len(PreCache) >= 2
    /\ last.k = Head(last.pre_map.order)
    /\ map.order # last.pre_map.order

\* The calls insert(k, v), one per pair of iter, in sequence order: the
\* cache after the first n of them.
RECURSIVE InsertsUpTo(_, _, _)
InsertsUpTo(c, iter, n) ==
    IF n = 0 THEN c
    ELSE insert(InsertsUpTo(c, iter, n - 1), iter[n][1], iter[n][2]).cache

\* C13: extend(pairs) leaves the cache as calling insert(k, v) once per pair
\* in sequence order does: same entries, values, recency order, capacity and
\* evictions, the eviction check being made after each single insert.
C13_ExtendIsRepeatedInsert ==
    last.op = "extend" =>
        LET c == InsertsUpTo(PreCache, last.iter, Len(last.iter))
        IN  /\ map = c.map
            /\ max_size = c.max_size
            /\ last.evicted = c.evicted
            /\ len(Cache) <= capacity(Cache)

\* extend with two new keys on a full cache: one check for the whole batch
\* would have evicted a single entry, and the per-insert checks evict two.
C13_Witness ==
    /\ last.op = "extend"
    /\ Len(last.iter) = 2
    /\ len(PreCache) = capacity(PreCache)
    /\ Len(last.evicted) = 2

----------------------------------------------------------------------------
\* The rendering of the entries of m at positions j, j-1, .. 1 of the order:
\* key: value, separated by ", ".
RECURSIVE RenderDown(_, _)
RenderDown(m, j) ==
    IF j = 0 THEN ""
    ELSE ToString(m.order[j]) \o ": " \o ToString(m.index[m.order[j]])
         \o (IF j > 1 THEN ", " ELSE "")
         \o RenderDown(m, j - 1)

\* C14: the debug rendering lists every live entry exactly once as
\* key: value, from the most recently used to the least recently used (the
\* reverse of the front-to-back order), and rendering changes neither the
\* state nor the order; an empty cache renders as {}.
C14_DebugRendering ==
    last.op = "fmt" =>
        LET items == debug_fmt(Cache)
        IN  /\ map = last.pre_map
            /\ max_size = last.pre_max_size
            /\ last.evicted = <<>>
            /\ Len(items) = len(Cache)
            /\ {items[i][1] : i \in 1..Len(items)} = KeysOf(map)
            /\ \A i \in 1..Len(items) : items[i][2] = map.index[items[i][1]]
            /\ last.ret = Some("{" \o RenderDown(map, Len(map.order)) \o "}")
            /\ KeysOf(map) = {} => last.ret = Some("{}")

\* Key 1 was used before key 3, and the rendering shows key 3 first.
C14_Witness ==
    /\ last.op = "fmt"
    /\ map.order = <<1, 3>>
    /\ last.ret = Some("{3: 2, 1: 1}")

----------------------------------------------------------------------------
\* The sequences of distinct keys, of length n, each paired with a value.
FreshIters(n) ==
    {it \in [1..n -> Pairs] : \A i, j \in 1..n : it[i][1] = it[j][1] => i = j}

\* C15: clear() removes every entry and empties the order (len() = 0,
\* is_empty(), every get returns none) and leaves capacity() unchanged, so
\* that the cache can be refilled up to the same capacity afterwards.
C15_Clear ==
    last.op = "clear" =>
        /\ map = EmptyMap
        /\ len(Cache) = 0
        /\ is_empty(Cache)
        /\ \A k \in Keys : get(Cache, k).ret = None
        /\ capacity(Cache) = last.pre_max_size
        /\ last.evicted = <<>>
        /\ \A n \in 0..capacity(Cache) : \A it \in FreshIters(n) :
               /\ len(extend(Cache, it)) = n
               /\ extend(Cache, it).evicted = <<>>

\* A full cache of two entries has been cleared.
C15_Witness ==
    /\ last.op = "clear"
    /\ len(PreCache) = capacity(PreCache)
    /\ len(PreCache) >= 2

\* C16: VacantEntry::insert(v) for an absent key k puts k -> v at the most
\* recently used position and makes one eviction check, so that the cache is
\* left in the state LruCache::insert(k, v) leaves it in.
C16_VacantInsertIsInsert ==
    last.op = "vacant_insert" =>
        LET c == insert(PreCache, last.k, last.v).cache
        IN  /\ last.k \notin KeysOf(last.pre_map)
            /\ map = c.map
            /\ max_size = c.max_size
            /\ last.evicted = c.evicted
            /\ Len(last.evicted) <= 1
            /\ len(Cache) <= capacity(Cache)
            /\ capacity(Cache) >= 1 =>
                   /\ map.order[Len(map.order)] = last.k
                   /\ map.index[last.k] = last.v
                   /\ last.ret = Some(last.v)

\* A vacant insert into a full cache of two entries has evicted one.
C16_Witness ==
    /\ last.op = "vacant_insert"
    /\ len(PreCache) = capacity(PreCache)
    /\ len(PreCache) >= 2
    /\ Len(last.evicted) = 1

----------------------------------------------------------------------------
\* C17: entry(k).or_insert(v) and entry(k).or_insert_with(f) on a key already
\* present insert nothing: the value of k is kept, len() is unchanged and
\* nothing is evicted; on an absent key they do what VacantEntry::insert does
\* with v or f().
C17_OrInsert ==
    last.op \in {"or_insert", "or_insert_with"} =>
        IF last.k \in KeysOf(last.pre_map)
        THEN /\ map = last.pre_map
             /\ map.index[last.k] = last.pre_map.index[last.k]
             /\ len(Cache) = len(PreCache)
             /\ last.evicted = <<>>
             /\ max_size = last.pre_max_size
             /\ last.ret = Some(last.pre_map.index[last.k])
        ELSE LET r == VacantEntry_insert(PreCache, last.k, last.v)
             IN  /\ map = r.cache.map
                 /\ max_size = r.cache.max_size
                 /\ last.evicted = r.cache.evicted
                 /\ last.ret = r.ret

\* or_insert on a key that is present with another value, in a full cache.
C17_Witness ==
    /\ last.op = "or_insert"
    /\ last.k \in KeysOf(last.pre_map)
    /\ last.v # last.pre_map.index[last.k]
    /\ len(PreCache) = capacity(PreCache)
    /\ len(PreCache) >= 2

\* C18: OccupiedEntry::insert(v) replaces the value of the entry's key and
\* returns the old value; len() and the set of keys are unchanged and
\* nothing is evicted, in every state where the key is present, a full
\* cache included.
C18_OccupiedInsert ==
    last.op = "occupied_insert" =>
        /\ last.k \in KeysOf(last.pre_map)
        /\ last.ret = Some(last.pre_map.index[last.k])
        /\ map.index[last.k] = last.v
        /\ KeysOf(map) = KeysOf(last.pre_map)
        /\ SameValues(KeysOf(map) \ {last.k}, map, last.pre_map)
        /\ len(Cache) = len(PreCache)
        /\ last.evicted = <<>>
        /\ max_size = last.pre_max_size

\* The value of a key of a full cache is replaced by another value.
C18_Witness ==
    /\ last.op = "occupied_insert"
    /\ len(PreCache) = capacity(PreCache)
    /\ len(PreCache) >= 2
    /\ last.v # last.pre_map.index[last.k]

\* C19: the single check of insert (if len() > capacity(), pop the front
\* once) does what the loop of the specification does (while len() >
\* capacity(), pop the front): in every reachable state len() <= capacity(),
\* the stored pair grows len() by at most 1, insert evicts at most one
\* entry, and both policies end in the same state.
C19_SingleCheckIsLoop ==
    /\ len(Cache) <= capacity(Cache)
    /\ \A k \in Keys, v \in Values :
           LET one == insert(Cache, k, v)
               loop == insert_loop(Cache, k, v)
           IN  /\ lhm_len(lhm_insert(map, k, v).map) <= len(Cache) + 1
               /\ Len(one.cache.evicted) <= 1
               /\ one = loop

\* The capacity has just been changed and the cache is full with two
\* entries, so that the next insert of a new key has to evict.
C19_Witness ==
    /\ last.op = "set_capacity"
    /\ len(Cache) = capacity(Cache)
    /\ len(Cache) >= 2
    /\ \E k \in Keys : insert(Cache, k, 1).cache.evicted # <<>>

\* C20: OccupiedEntry::get_mut and OccupiedEntry::into_mut give the current
\* value of the entry's key and change neither the recency order, nor the
\* set of entries, nor len().
C20_GetMutKeepsOrder ==
    last.op \in {"get_mut", "into_mut"} =>
        /\ last.k \in KeysOf(last.pre_map)
        /\ last.ret = Some(last.pre_map.index[last.k])
        /\ map.order = last.pre_map.order
        /\ map.index = last.pre_map.index
        /\ len(Cache) = len(PreCache)
        /\ max_size = last.pre_max_size
        /\ last.evicted = <<>>

\* get_mut on the least recently used key of a cache of two entries.
C20_Witness ==
    /\ last.op = "get_mut"
    /\ Len(map.order) >= 2
    /\ last.k = Head(map.order)

====
